---- MODULE Spec2Model ----
(***************************************************************************)
(* The playback-sync hub of websocket_sync.go: the Hub goroutine (Run),    *)
(* and for every websocket connection the handler goroutine                *)
(* (ServeWebSocket, then readPump) and the writePump goroutine.            *)
(*                                                                         *)
(* Channels: Hub.Register, Hub.Unregister and Hub.Broadcast are unbuffered *)
(* (NewHub), so a sender stays blocked at its send statement until the hub *)
(* loop takes the value: a blocked sender is a value of rpc, and the hub's *)
(* receive is the step that moves it on.  Client.Send is buffered; it is   *)
(* the sequence Send[c] plus the number of close() calls made on it.       *)
(*                                                                         *)
(* The range loop of a broadcast is one step per map entry: writePumps     *)
(* receive from their Send channels while the loop runs.                   *)
(***************************************************************************)
EXTENDS Integers, Sequences, FiniteSets, TLC

\* ---------------------------------------------------------------- bounds
\* Connections of one run.  The peer of A sends frames in every run, the
\* peer of B in the runs of two connections; the peer of C only listens.
Conn == {"A", "B", "C"}
Senders == {"A"}

\* Capacity of Client.Send.  The source makes it with 256 slots
\* (ServeWebSocket, line 163); Hub.Run never reads the number, only whether
\* a send would block, so the hub is checked for a small capacity.
SendCap == 1

\* Frames read from all sockets together during one run.
MaxMsgs == 2

\* Seconds the wall clock may advance during one run, and where it starts.
MaxTicks == 1
StartTime == 40

\* Seconds between a close of the sync client's socket and its next
\* connection attempt (setTimeout(..., 5000)).
ReconnectDelay == 5

\* sendPresence timeouts that may be pending at once.
MaxPres == 2

\* Longest request path, in characters after "/song/".
MaxPath == 4

\* Age in seconds above which the sync client treats a message as stale
\* (syncPlay / syncPause: messageAge > 5).
FreshWindow == 5

\* ---------------------------------------------------------------- state
VARIABLES
    Clients,    \* Hub.Clients: the keys of the map (every value is true)
    Send,       \* Client.Send: the buffered items, oldest first
    closes,     \* number of close(client.Send) calls executed
    sock,       \* Client.Socket: "open" | "down" (failed or closed)
    rpc,        \* handler goroutine: position in ServeWebSocket/readPump
    rmsg,       \* readPump: broadcastMsg, while blocked on hub.Broadcast
    wpc,        \* writePump goroutine: "idle" | "recv" | "done"
    hpc,        \* Hub.Run: "select" | "fanout" | "panic"
    hmsg,       \* Hub.Run: message, during the range loop
    htodo,      \* Hub.Run: map entries the range loop has not visited yet
    unregs,     \* history: Unregister signals the hub took from each client
    evictedBy,  \* history: id of the message whose fan-out evicted the client
    nextId,     \* history: frames read so far, plus one
    now,        \* wall clock, unix seconds
    written,    \* history: what writePump has put on each socket, in order
    apc,        \* API handler goroutine: "idle" | "bcast" (in SendPlaySync)
    amsg,       \* SendPlaySync/SendPauseSync: data, while blocked on Broadcast
    rframe,     \* readPump: message, between ReadMessage and json.Unmarshal
    \* encoding/json on a WebSocketMessage, taken by itself
    jpc,        \* "doc" | "decoded" | "encoded" | "again"
    jdoc,       \* a JSON document
    jmsg,       \* the struct json.Unmarshal fills from jdoc
    jenc,       \* the document json.Marshal makes of jmsg
    jout,       \* the struct json.Unmarshal fills from jenc
    \* streamSongHandler
    sreq,       \* r.URL.Path after "/song/", character by character
    sres,       \* the response: status, and the paths given to Stat, ServeFile
    \* MusicSyncClient
    cws,        \* this.ws: "connecting" | "open" | "closed"
    cconn,      \* this.isConnected
    ctimer,     \* seconds left on the reconnect timeout, -1 if none is set
    cpres,      \* pending sendPresence timeouts
    cplaying,   \* this.isPlaying
    csong,      \* this.currentSong
    cpos,       \* this.currentPosition
    csent,      \* history: type of the last frame given to ws.send, parity
    clog,       \* history: the last "Sync ..." line on the console, parity
    cnote,      \* history: ids of the notification elements ever created
    cin         \* history: the last message onmessage parsed, and Date.now()

vars == <<Clients, Send, closes, sock, rpc, rmsg, wpc, hpc, hmsg, htodo,
          unregs, evictedBy, nextId, now, written, apc, amsg, rframe,
          jpc, jdoc, jmsg, jenc, jout, sreq, sres,
          cws, cconn, ctimer, cpres, cplaying, csong, cpos, csent, clog,
          cnote, cin>>

\* The sync server.
server == <<Clients, Send, closes, sock, rpc, rmsg, wpc, hpc, hmsg, htodo,
            unregs, evictedBy, nextId, now, written, apc, amsg, rframe>>

codec == <<jpc, jdoc, jmsg, jenc, jout>>

stream == <<sreq, sres>>

client == <<cws, cconn, ctimer, cpres, cplaying, csong, cpos, csent, clog,
            cnote, cin>>

\* What no step of the sync server touches.
rest == <<codec, stream, client>>

\* The goroutine of an API request.
api == <<apc, amsg>>

\* A message as the hub carries it: the marshalled WebSocketMessage.  id and
\* origin are history fields (which frame, read by which connection); ts is
\* the Timestamp field.
NoMsg == [id |-> 0, origin |-> "none", ts |-> 0, kind |-> "none"]

\* A frame as ReadMessage returns it: json says whether json.Unmarshal
\* into a WebSocketMessage succeeds on it; kind is its "type" member ("" if
\* it has none) and ts0 its "timestamp" member (0 if it has none).
NoFrame == [id |-> 0, json |-> FALSE, kind |-> "none", ts0 |-> 0]

\* The zero value of a WebSocketMessage.
ZeroMsg ==
    [type |-> "", user_id |-> "", song_id |-> "", position |-> 0,
     volume |-> 0, timestamp |-> 0]

\* A JSON object with no members: the string-valued ones and the
\* number-valued ones are kept apart.
EmptyDoc == [str |-> <<>>, num |-> <<>>]

\* No encoding or decoding is under way.
CodecIdle ==
    /\ jpc = "doc"
    /\ jdoc = EmptyDoc
    /\ jmsg = ZeroMsg
    /\ jenc = EmptyDoc
    /\ jout = ZeroMsg

\* No response of streamSongHandler.
NoResponse == [status |-> 0, stat |-> <<>>, served |-> <<>>]

\* No request for a song is being served.
StreamIdle ==
    /\ sreq = <<>>
    /\ sres = NoResponse

\* No message has been handed to the sync client.
NoIn ==
    [type |-> "none", user_id |-> "none", song_id |-> "none",
     position |-> 0, timestamp |-> 0, t2 |-> 0, n |-> 0]

\* MusicSyncClient's constructor: the fields, and initializeWebSocket has
\* created the socket.
ClientInit ==
    /\ cws = "connecting"
    /\ cconn = FALSE
    /\ ctimer = -1
    /\ cpres = 0
    /\ cplaying = FALSE
    /\ csong = "null"
    /\ cpos = 0
    /\ csent = [n |-> 0, last |-> "none"]
    /\ clog = [n |-> 0, last |-> "none"]
    /\ cnote = {}
    /\ cin = NoIn

\* NewHub, and ServeWebSocket up to its send on hub.Register: every
\* connection in present has been upgraded, has its Client with an empty
\* Send channel, and its handler is blocked on hub.Register.
ServerInit(present) ==
    /\ Clients = {}
    /\ Send = [c \in Conn |-> <<>>]
    /\ closes = [c \in Conn |-> 0]
    /\ sock = [c \in Conn |-> "open"]
    /\ rpc = [c \in Conn |-> IF c \in present THEN "register" ELSE "absent"]
    /\ rmsg = [c \in Conn |-> NoMsg]
    /\ wpc = [c \in Conn |-> "idle"]
    /\ hpc = "select"
    /\ hmsg = NoMsg
    /\ htodo = {}
    /\ unregs = [c \in Conn |-> 0]
    /\ evictedBy = [c \in Conn |-> 0]
    /\ nextId = 1
    /\ now = StartTime
    /\ written = [c \in Conn |-> <<>>]
    /\ apc = "idle"
    /\ amsg = NoMsg
    /\ rframe = [c \in Conn |-> NoFrame]

\* The sync server with the connections of present, and nothing else
\* going on.
InitWith(present) ==
    ServerInit(present) /\ CodecIdle /\ StreamIdle /\ ClientInit

Init == InitWith(Conn)

\* A panic in Hub.Run ends the process.
Running == hpc # "panic"

\* ------------------------------------------------- transport and clock
\* The peer goes away or the network fails: from now on ReadMessage and
\* NextWriter/Close on this socket return an error.  The pumps are the only
\* readers of the socket and start after registration, so a failure before
\* that is seen no earlier than one right after it.
TransportFail(c) ==
    /\ Running
    /\ rpc[c] \in {"read", "decode", "bcast"}
    /\ sock[c] = "open"
    /\ sock' = [sock EXCEPT ![c] = "down"]
    /\ UNCHANGED <<Clients, Send, closes, rpc, rmsg, wpc, hpc, hmsg, htodo,
                   unregs, evictedBy, nextId, now, written, api, rframe,
                   rest>>

\* time.Now().Unix() advances.
Tick ==
    /\ Running
    /\ now < StartTime + MaxTicks
    /\ now' = now + 1
    /\ UNCHANGED <<Clients, Send, closes, sock, rpc, rmsg, wpc, hpc, hmsg,
                   htodo, unregs, evictedBy, nextId, written, api, rframe,
                   rest>>

\* ------------------------------------------------------------ readPump
\* FillTs as a readPump that stamps every message with the time of receipt.
FillTsAlways(ts0) == now

\* readPump, lines 110-112: a zero Timestamp becomes the time of receipt.
FillTs(ts0) == IF ts0 = 0 THEN now ELSE ts0

\* readPump, lines 103-115: unmarshal, fill a zero Timestamp, marshal.
Stamp(c, ts0) ==
    [id |-> nextId, origin |-> c, ts |-> FillTs(ts0), kind |-> "play"]

\* ReadBody with a buffered hub.Broadcast: the send returns at once and
\* readPump goes on to its next ReadMessage with the message in the buffer.
ReadBodyBuffered(c, ts0) ==
    /\ Running
    /\ rpc[c] = "read"
    /\ sock[c] = "open"
    /\ rmsg' = [rmsg EXCEPT ![c] = Stamp(c, ts0)]
    /\ nextId' = nextId + 1
    /\ UNCHANGED <<Clients, Send, closes, sock, rpc, wpc, hpc, hmsg, htodo,
                   unregs, evictedBy, now, written, api, rframe, rest>>

\* readPump reads one well-formed frame whose timestamp field is ts0 (0: the
\* field is absent or zero) and blocks on hub.Broadcast.
ReadBody(c, ts0) ==
    /\ Running
    /\ rpc[c] = "read"
    /\ sock[c] = "open"
    /\ rmsg' = [rmsg EXCEPT ![c] = Stamp(c, ts0)]
    /\ rpc' = [rpc EXCEPT ![c] = "bcast"]
    /\ nextId' = nextId + 1
    /\ UNCHANGED <<Clients, Send, closes, sock, wpc, hpc, hmsg, htodo,
                   unregs, evictedBy, now, written, api, rframe, rest>>

\* The values of the MessageType constants, lines 19-23.
MessageTypes == {"play", "pause", "seek", "volume", "playlist"}

\* The "type" members of the frames a peer sends: two of the constants, the
\* one of the sync client's heartbeat, and none.
FrameKinds == {"play", "volume", "presence", ""}

\* Unmarshals as a decoder that also wants the type to be one of the
\* MessageType constants.
UnmarshalsKnownType(f) == f.json /\ f.kind \in MessageTypes

\* json.Unmarshal(message, &msg) returns no error: Type is a string type
\* and takes any string.
Unmarshals(f) == f.json

\* ReadMessage returns frame f: readPump is about to unmarshal it.
RecvFrame(c, f) ==
    /\ Running
    /\ rpc[c] = "read"
    /\ sock[c] = "open"
    /\ nextId <= MaxMsgs
    /\ rframe' = [rframe EXCEPT ![c] = [id |-> nextId, json |-> f.json,
                                        kind |-> f.kind, ts0 |-> f.ts0]]
    /\ rpc' = [rpc EXCEPT ![c] = "decode"]
    /\ nextId' = nextId + 1
    /\ UNCHANGED <<Clients, Send, closes, sock, rmsg, wpc, hpc, hmsg, htodo,
                   unregs, evictedBy, now, written, api, rest>>

\* Decode as a readPump that leaves its loop on a frame that does not
\* unmarshal, as it does on a read error.
DecodeBreaks(c) ==
    /\ Running
    /\ rpc[c] = "decode"
    /\ IF Unmarshals(rframe[c])
       THEN /\ rmsg' = [rmsg EXCEPT ![c] = [id |-> rframe[c].id,
                                            origin |-> c,
                                            ts |-> FillTs(rframe[c].ts0),
                                            kind |-> rframe[c].kind]]
            /\ rpc' = [rpc EXCEPT ![c] = "bcast"]
       ELSE /\ rpc' = [rpc EXCEPT ![c] = "unreg"]
            /\ UNCHANGED rmsg
    /\ rframe' = [rframe EXCEPT ![c] = NoFrame]
    /\ UNCHANGED <<Clients, Send, closes, sock, wpc, hpc, hmsg, htodo,
                   unregs, evictedBy, nextId, now, written, api, rest>>

\* readPump, lines 102-116: a frame that does not unmarshal is logged and
\* the loop continues with the next ReadMessage; one that does has a zero
\* Timestamp filled, is marshalled again and goes to hub.Broadcast.
Decode(c) ==
    /\ Running
    /\ rpc[c] = "decode"
    /\ IF Unmarshals(rframe[c])
       THEN /\ rmsg' = [rmsg EXCEPT ![c] = [id |-> rframe[c].id,
                                            origin |-> c,
                                            ts |-> FillTs(rframe[c].ts0),
                                            kind |-> rframe[c].kind]]
            /\ rpc' = [rpc EXCEPT ![c] = "bcast"]
       ELSE /\ rpc' = [rpc EXCEPT ![c] = "read"]
            /\ UNCHANGED rmsg
    /\ rframe' = [rframe EXCEPT ![c] = NoFrame]
    /\ UNCHANGED <<Clients, Send, closes, sock, wpc, hpc, hmsg, htodo,
                   unregs, evictedBy, nextId, now, written, api, rest>>

\* One of the MaxMsgs frames of a run arrives.
ReadFrame(c, ts0) == nextId <= MaxMsgs /\ ReadBody(c, ts0)

\* One frame more arrives, after the others.
LateFrame(c) == nextId = MaxMsgs + 1 /\ ReadBody(c, 0)

\* ReadError as a readPump that signals hub.Unregister at the break and
\* again in its deferred function: the hub takes the first signal here.
ReadErrorSignalsTwice(c) ==
    /\ Running
    /\ rpc[c] = "read"
    /\ sock[c] = "down"
    /\ hpc = "select"
    /\ IF c \in Clients
       THEN /\ Clients' = Clients \ {c}
            /\ closes' = [closes EXCEPT ![c] = @ + 1]
       ELSE UNCHANGED <<Clients, closes>>
    /\ unregs' = [unregs EXCEPT ![c] = @ + 1]
    /\ rpc' = [rpc EXCEPT ![c] = "unreg"]
    /\ UNCHANGED <<Send, sock, rmsg, wpc, hpc, hmsg, htodo, evictedBy,
                   nextId, now, written, api, rframe, rest>>

\* ReadError as a readPump that deletes its own registry entry before it
\* signals the hub.
ReadErrorDeletes(c) ==
    /\ Running
    /\ rpc[c] = "read"
    /\ sock[c] = "down"
    /\ rpc' = [rpc EXCEPT ![c] = "unreg"]
    /\ Clients' = Clients \ {c}
    /\ UNCHANGED <<Send, closes, sock, rmsg, wpc, hpc, hmsg, htodo,
                   unregs, evictedBy, nextId, now, written, api, rframe,
                   rest>>

\* ReadError as a readPump without the deferred function: it returns, and
\* the hub is told nothing.
ReadErrorNoSignal(c) ==
    /\ Running
    /\ rpc[c] = "read"
    /\ sock[c] = "down"
    /\ rpc' = [rpc EXCEPT ![c] = "done"]
    /\ UNCHANGED <<Clients, Send, closes, sock, rmsg, wpc, hpc, hmsg, htodo,
                   unregs, evictedBy, nextId, now, written, api, rframe,
                   rest>>

\* ReadMessage returns an error: break, and the deferred function blocks
\* on hub.Unregister.
ReadError(c) ==
    /\ Running
    /\ rpc[c] = "read"
    /\ sock[c] = "down"
    /\ rpc' = [rpc EXCEPT ![c] = "unreg"]
    /\ UNCHANGED <<Clients, Send, closes, sock, rmsg, wpc, hpc, hmsg, htodo,
                   unregs, evictedBy, nextId, now, written, api, rframe,
                   rest>>

\* ----------------------------------------------------------- writePump
\* The close frame of websocket.CloseMessage, as an entry of written.
CloseFrame == [id |-> 0, origin |-> "close", ts |-> 0, kind |-> "close"]

\* Outcomes of a write on c's socket: it succeeds on an open socket and
\* fails on one that readPump has closed; on a failed transport that is not
\* closed yet it may do either.
WriteOutcomes(c) ==
    IF sock[c] = "open" THEN {TRUE}
    ELSE IF rpc[c] = "done" THEN {FALSE}
    ELSE {TRUE, FALSE}

\* WriteMessage as a writePump that hands every item to a goroutine of its
\* own: the writes reach the socket in any order.
WriteMessageAsync(c) ==
    /\ Running
    /\ wpc[c] = "recv"
    /\ Send[c] # <<>>
    /\ Send' = [Send EXCEPT ![c] = Tail(@)]
    /\ \E i \in 0..Len(written[c]) :
        written' = [written EXCEPT
            ![c] = SubSeq(@, 1, i) \o <<Head(Send[c])>>
                       \o SubSeq(@, i + 1, Len(@))]
    /\ UNCHANGED <<Clients, closes, sock, rpc, rmsg, wpc, hpc, hmsg, htodo,
                   unregs, evictedBy, nextId, now, api, rframe, rest>>

\* writePump takes the oldest item of Send and writes it to the socket; a
\* failed write returns (the deferred Socket.Close finds the socket down).
WriteMessage(c) ==
    /\ Running
    /\ wpc[c] = "recv"
    /\ Send[c] # <<>>
    /\ Send' = [Send EXCEPT ![c] = Tail(@)]
    /\ \E ok \in WriteOutcomes(c) :
        /\ wpc' = [wpc EXCEPT ![c] = IF ok THEN "recv" ELSE "done"]
        /\ written' = [written EXCEPT
                            ![c] = IF ok THEN Append(@, Head(Send[c])) ELSE @]
    /\ UNCHANGED <<Clients, closes, sock, rpc, rmsg, hpc, hmsg, htodo,
                   unregs, evictedBy, nextId, now, api, rframe, rest>>

\* WriteClose as a writePump that is told of the close beside the channel
\* and does not drain it: close frame and return with items still queued.
WriteCloseEarly(c) ==
    /\ Running
    /\ wpc[c] = "recv"
    /\ closes[c] > 0
    /\ wpc' = [wpc EXCEPT ![c] = "done"]
    /\ sock' = [sock EXCEPT ![c] = "down"]
    /\ \E ok \in WriteOutcomes(c) :
        written' = [written EXCEPT
                        ![c] = IF ok THEN Append(@, CloseFrame) ELSE @]
    /\ UNCHANGED <<Clients, Send, closes, rpc, rmsg, hpc, hmsg, htodo,
                   unregs, evictedBy, nextId, now, api, rframe, rest>>

\* WriteClose as a writePump that drops the ok of its receive: a closed
\* channel yields an empty message again and again, and the loop goes on.
WriteCloseSpin(c) ==
    /\ Running
    /\ wpc[c] = "recv"
    /\ Send[c] = <<>>
    /\ closes[c] > 0
    /\ UNCHANGED vars

\* writePump finds Send closed and drained: close frame (its error is not
\* looked at), return, and the deferred Socket.Close runs.
WriteClose(c) ==
    /\ Running
    /\ wpc[c] = "recv"
    /\ Send[c] = <<>>
    /\ closes[c] > 0
    /\ wpc' = [wpc EXCEPT ![c] = "done"]
    /\ sock' = [sock EXCEPT ![c] = "down"]
    /\ \E ok \in WriteOutcomes(c) :
        written' = [written EXCEPT
                        ![c] = IF ok THEN Append(@, CloseFrame) ELSE @]
    /\ UNCHANGED <<Clients, Send, closes, rpc, rmsg, hpc, hmsg, htodo,
                   unregs, evictedBy, nextId, now, api, rframe, rest>>

\* -------------------------------------------------------------- Hub.Run
\* HubRegister as a hub with room for one connection: one that arrives
\* while the registry is taken is turned away and its handler returns.
HubRegisterLimited(c) ==
    /\ hpc = "select"
    /\ rpc[c] = "register"
    /\ IF Clients = {}
       THEN /\ Clients' = Clients \cup {c}
            /\ rpc' = [rpc EXCEPT ![c] = "read"]
            /\ wpc' = [wpc EXCEPT ![c] = "recv"]
            /\ UNCHANGED sock
       ELSE /\ rpc' = [rpc EXCEPT ![c] = "done"]
            /\ sock' = [sock EXCEPT ![c] = "down"]
            /\ UNCHANGED <<Clients, wpc>>
    /\ UNCHANGED <<Send, closes, rmsg, hpc, hmsg, htodo, unregs,
                   evictedBy, nextId, now, written, api, rframe, rest>>

\* HubRegister as a handler that writes its Client into the map itself,
\* whatever Hub.Run is doing.
HubRegisterDirect(c) ==
    /\ Running
    /\ rpc[c] = "register"
    /\ Clients' = Clients \cup {c}
    /\ rpc' = [rpc EXCEPT ![c] = "read"]
    /\ wpc' = [wpc EXCEPT ![c] = "recv"]
    /\ UNCHANGED <<Send, closes, sock, rmsg, hpc, hmsg, htodo, unregs,
                   evictedBy, nextId, now, written, api, rframe, rest>>

\* case client := <-h.Register.  The handler goes on: go writePump(), then
\* readPump.
HubRegister(c) ==
    /\ hpc = "select"
    /\ rpc[c] = "register"
    /\ Clients' = Clients \cup {c}
    /\ rpc' = [rpc EXCEPT ![c] = "read"]
    /\ wpc' = [wpc EXCEPT ![c] = "recv"]
    /\ UNCHANGED <<Send, closes, sock, rmsg, hpc, hmsg, htodo, unregs,
                   evictedBy, nextId, now, written, api, rframe, rest>>

\* Client.UserID, from the User-ID header of the upgrade request: A and B
\* are two connections of one user.
UserID == [c \in Conn |-> IF c = "C" THEN "u2" ELSE "u1"]

\* UnregisterBody on a registry kept by user: every connection of the
\* user goes.
UnregisterByUser(c) ==
    IF c \in Clients
    THEN /\ Clients' = {d \in Clients : UserID[d] # UserID[c]}
         /\ closes' = [d \in Conn |->
                IF d \in Clients /\ UserID[d] = UserID[c]
                THEN closes[d] + 1 ELSE closes[d]]
         /\ hpc' = IF closes[c] > 0 THEN "panic" ELSE "select"
    ELSE UNCHANGED <<Clients, closes, hpc>>

\* UnregisterBody without the presence test.
UnregisterNoCheck(c) ==
    /\ Clients' = Clients \ {c}
    /\ closes' = [closes EXCEPT ![c] = @ + 1]
    /\ hpc' = IF closes[c] > 0 THEN "panic" ELSE "select"

\* UnregisterBody with the presence test inverted.
UnregisterInverted(c) ==
    IF c \notin Clients
    THEN /\ Clients' = Clients \ {c}
         /\ closes' = [closes EXCEPT ![c] = @ + 1]
         /\ hpc' = IF closes[c] > 0 THEN "panic" ELSE "select"
    ELSE UNCHANGED <<Clients, closes, hpc>>

\* UnregisterBody that closes the channel and forgets the delete.
UnregisterCloseOnly(c) ==
    IF c \in Clients
    THEN /\ closes' = [closes EXCEPT ![c] = @ + 1]
         /\ hpc' = IF closes[c] > 0 THEN "panic" ELSE "select"
         /\ UNCHANGED Clients
    ELSE UNCHANGED <<Clients, closes, hpc>>

\* The body of case client := <-h.Unregister, lines 69-72.  close() of a
\* closed channel panics.
UnregisterBody(c) ==
    IF c \in Clients
    THEN /\ Clients' = Clients \ {c}
         /\ closes' = [closes EXCEPT ![c] = @ + 1]
         /\ hpc' = IF closes[c] > 0 THEN "panic" ELSE "select"
    ELSE UNCHANGED <<Clients, closes, hpc>>

\* case client := <-h.Unregister.  The deferred function of readPump goes
\* on to Socket.Close and the handler returns.
HubUnregister(c) ==
    /\ hpc = "select"
    /\ rpc[c] = "unreg"
    /\ UnregisterBody(c)
    /\ unregs' = [unregs EXCEPT ![c] = @ + 1]
    /\ rpc' = [rpc EXCEPT ![c] = "done"]
    /\ sock' = [sock EXCEPT ![c] = "down"]
    /\ UNCHANGED <<Send, rmsg, wpc, hmsg, htodo, evictedBy, nextId, now,
                   written, api, rframe, rest>>

\* Age of a message at the present time, in seconds.
Age(m) == now - m.ts

\* HubBroadcast as a hub that drops a message older than FreshWindow.
HubBroadcastFresh(c) ==
    /\ hpc = "select"
    /\ rpc[c] = "bcast"
    /\ LET go == Clients # {} /\ Age(rmsg[c]) <= FreshWindow IN
        /\ hmsg' = IF go THEN rmsg[c] ELSE NoMsg
        /\ htodo' = IF go THEN Clients ELSE {}
        /\ hpc' = IF go THEN "fanout" ELSE "select"
    /\ rpc' = [rpc EXCEPT ![c] = "read"]
    /\ rmsg' = [rmsg EXCEPT ![c] = NoMsg]
    /\ UNCHANGED <<Clients, Send, closes, sock, wpc, unregs, evictedBy,
                   nextId, now, written, api, rframe, rest>>

\* case message := <-h.Broadcast: the range loop starts over the entries
\* of h.Clients; readPump goes back to ReadMessage.
HubBroadcast(c) ==
    /\ hpc = "select"
    /\ rpc[c] = "bcast"
    /\ hmsg' = IF Clients = {} THEN NoMsg ELSE rmsg[c]
    /\ htodo' = Clients
    /\ hpc' = IF Clients = {} THEN "select" ELSE "fanout"
    /\ rpc' = [rpc EXCEPT ![c] = "read"]
    /\ rmsg' = [rmsg EXCEPT ![c] = NoMsg]
    /\ UNCHANGED <<Clients, Send, closes, sock, wpc, unregs, evictedBy,
                   nextId, now, written, api, rframe, rest>>

\* Deliver as a hub that queues two copies of the message.
DeliverTwice(c) ==
    IF Len(Send[c]) < SendCap
    THEN /\ Send' = [Send EXCEPT ![c] = Append(Append(@, hmsg), hmsg)]
         /\ UNCHANGED <<Clients, closes, evictedBy>>
    ELSE /\ closes' = [closes EXCEPT ![c] = @ + 1]
         /\ Clients' = Clients \ {c}
         /\ evictedBy' = [evictedBy EXCEPT ![c] = hmsg.id]
         /\ UNCHANGED Send

\* Deliver as a hub that leaves the sender out of its own broadcast.
DeliverSkipSender(c) ==
    IF hmsg.origin = c
    THEN UNCHANGED <<Send, Clients, closes, evictedBy>>
    ELSE IF Len(Send[c]) < SendCap
         THEN /\ Send' = [Send EXCEPT ![c] = Append(@, hmsg)]
              /\ UNCHANGED <<Clients, closes, evictedBy>>
         ELSE /\ closes' = [closes EXCEPT ![c] = @ + 1]
              /\ Clients' = Clients \ {c}
              /\ evictedBy' = [evictedBy EXCEPT ![c] = hmsg.id]
              /\ UNCHANGED Send

\* Deliver with the free-slot test off by one: the last free slot counts
\* as full.
DeliverOffByOne(c) ==
    IF Len(Send[c]) + 1 < SendCap
    THEN /\ Send' = [Send EXCEPT ![c] = Append(@, hmsg)]
         /\ UNCHANGED <<Clients, closes, evictedBy>>
    ELSE /\ closes' = [closes EXCEPT ![c] = @ + 1]
         /\ Clients' = Clients \ {c}
         /\ evictedBy' = [evictedBy EXCEPT ![c] = hmsg.id]
         /\ UNCHANGED Send

\* Deliver with an empty default branch: a full queue loses the message
\* and nothing else happens.
DeliverNoEvict(c) ==
    IF Len(Send[c]) < SendCap
    THEN /\ Send' = [Send EXCEPT ![c] = Append(@, hmsg)]
         /\ UNCHANGED <<Clients, closes, evictedBy>>
    ELSE UNCHANGED <<Send, Clients, closes, evictedBy>>

\* Deliver as a plain channel send, which waits for a free slot.
DeliverBlocking(c) ==
    /\ Len(Send[c]) < SendCap
    /\ Send' = [Send EXCEPT ![c] = Append(@, hmsg)]
    /\ UNCHANGED <<Clients, closes, evictedBy>>

\* Deliver whose default branch closes the channel and forgets the delete.
DeliverCloseOnly(c) ==
    IF Len(Send[c]) < SendCap
    THEN /\ Send' = [Send EXCEPT ![c] = Append(@, hmsg)]
         /\ UNCHANGED <<Clients, closes, evictedBy>>
    ELSE /\ closes' = [closes EXCEPT ![c] = @ + 1]
         /\ evictedBy' = [evictedBy EXCEPT ![c] = hmsg.id]
         /\ UNCHANGED <<Send, Clients>>

\* Deliver that buffers without limit.
DeliverUnbounded(c) ==
    /\ Send' = [Send EXCEPT ![c] = Append(@, hmsg)]
    /\ UNCHANGED <<Clients, closes, evictedBy>>

\* The select of lines 75-80 for one map entry, as the channel, the close
\* counts and the registry after it: the send if it would not block, else
\* the default branch.
Deliver(c) ==
    IF Len(Send[c]) < SendCap
    THEN /\ Send' = [Send EXCEPT ![c] = Append(@, hmsg)]
         /\ UNCHANGED <<Clients, closes, evictedBy>>
    ELSE /\ closes' = [closes EXCEPT ![c] = @ + 1]
         /\ Clients' = Clients \ {c}
         /\ evictedBy' = [evictedBy EXCEPT ![c] = hmsg.id]
         /\ UNCHANGED Send

\* One iteration of the range loop of lines 74-81.  A send on a closed
\* channel panics.  After the last entry the loop ends and Run is back at
\* its select.
FanoutVisit(c) ==
    /\ hpc = "fanout"
    /\ c \in htodo
    /\ IF closes[c] > 0
       THEN /\ hpc' = "panic"
            /\ UNCHANGED <<Clients, Send, closes, evictedBy, htodo, hmsg>>
       ELSE /\ Deliver(c)
            /\ htodo' = htodo \ {c}
            /\ hpc' = IF htodo = {c} THEN "select" ELSE "fanout"
            /\ hmsg' = IF htodo = {c} THEN NoMsg ELSE hmsg
    /\ UNCHANGED <<sock, rpc, rmsg, wpc, unregs, nextId, now, written, api,
                   rframe, rest>>

\* SendSync as a helper that stamps its messages with the time at which
\* the server started.
SendSyncBootTime ==
    /\ Running
    /\ apc = "idle"
    /\ nextId <= MaxMsgs
    /\ amsg' = [id |-> nextId, origin |-> "server", ts |-> StartTime,
                kind |-> "play"]
    /\ apc' = "bcast"
    /\ nextId' = nextId + 1
    /\ UNCHANGED <<Clients, Send, closes, sock, rpc, rmsg, wpc, hpc, hmsg,
                   htodo, unregs, evictedBy, now, written, rframe, rest>>

\* SendPlaySync and SendPauseSync, called by the handler of an API
\* request: build the message with the present time, marshal it and block
\* on hub.Broadcast.
SendSync ==
    /\ Running
    /\ apc = "idle"
    /\ nextId <= MaxMsgs
    /\ amsg' = [id |-> nextId, origin |-> "server", ts |-> now,
                kind |-> "play"]
    /\ apc' = "bcast"
    /\ nextId' = nextId + 1
    /\ UNCHANGED <<Clients, Send, closes, sock, rpc, rmsg, wpc, hpc, hmsg,
                   htodo, unregs, evictedBy, now, written, rframe, rest>>

\* case message := <-h.Broadcast, the sender being SendPlaySync or
\* SendPauseSync, which returns.
HubBroadcastApi ==
    /\ hpc = "select"
    /\ apc = "bcast"
    /\ hmsg' = IF Clients = {} THEN NoMsg ELSE amsg
    /\ htodo' = Clients
    /\ hpc' = IF Clients = {} THEN "select" ELSE "fanout"
    /\ apc' = "idle"
    /\ amsg' = NoMsg
    /\ UNCHANGED <<Clients, Send, closes, sock, rpc, rmsg, wpc, unregs,
                   evictedBy, nextId, now, written, rframe, rest>>

HubStep ==
    \E c \in Conn :
        HubRegister(c) \/ HubUnregister(c) \/ HubBroadcast(c) \/ FanoutVisit(c)

\* The pumps and the transport.
PumpStep ==
    \/ \E c \in Conn : TransportFail(c)
    \/ \E c \in Senders : ReadFrame(c, 0)
    \/ \E c \in Conn : ReadError(c)
    \/ \E c \in Conn : WriteMessage(c)
    \/ \E c \in Conn : WriteClose(c)

Next == PumpStep \/ HubStep

\* Three connections, one of them sends; every frame leaves its timestamp
\* to the server.
Spec == Init /\ [][Next]_vars

\* A frame arrives on B's socket.
PairStep == ReadFrame("B", 0)

NextPair == Next \/ PairStep

\* Two connections, both peers send.  The hub goroutine is scheduled
\* whenever it can take a step (many senders blocked on one channel are
\* taken in turn, and the model's runs hold finitely many of them);
\* nothing is assumed of the pumps or the peers: a write path may stall
\* for ever.
FairSpec == InitWith({"A", "B"}) /\ [][NextPair]_vars /\ WF_vars(HubStep)

\* Two connections, both peers send, and every goroutine that can take a
\* step is scheduled: the hub, a readPump whose ReadMessage has an error to
\* return, a writePump that has an item or a closed channel to receive
\* from.  A write on the socket returns.  Nothing is assumed of the peers.
LiveSpec ==
    /\ InitWith({"A", "B"})
    /\ [][NextPair]_vars
    /\ WF_vars(HubStep)
    /\ \A c \in Conn :
        WF_vars(ReadError(c)) /\ WF_vars(WriteMessage(c))
            /\ WF_vars(WriteClose(c))

\* The same two connections with nothing assumed of any goroutine.
SpecPair == InitWith({"A", "B"}) /\ [][NextPair]_vars

\* The frames a peer sends: every kind with and without a timestamp of its
\* own, and one that does not unmarshal.
Frames ==
    [json : {TRUE}, kind : FrameKinds, ts0 : {0, now - FreshWindow}]
        \cup {[json |-> FALSE, kind |-> "play", ts0 |-> 0]}

\* The clock advances, a frame arrives, readPump decodes it.
CodecStep ==
    \/ Tick
    \/ \E c \in Senders : \E f \in Frames : RecvFrame(c, f)
    \/ \E c \in Conn : Decode(c)

NextCodec == Next \/ CodecStep

\* One connection, a running clock, and frames of every sort.
SpecCodec == InitWith({"A"}) /\ [][NextCodec]_vars

\* ------------------------------------------------------- encoding/json
\* The members of the JSON form of a WebSocketMessage, by the type of
\* their values, and the values a document may give them.
StrMembers == {"type", "user_id", "song_id"}
NumMembers == {"position", "volume", "timestamp"}
StrVals == {"", "v"}
NumVals == {0, 7}

\* The JSON objects with any of the members present.
Docs ==
    {[str |-> f, num |-> g] :
        f \in UNION {[S -> StrVals] : S \in SUBSET StrMembers},
        g \in UNION {[S -> NumVals] : S \in SUBSET NumMembers}}

\* json.Unmarshal(doc, &msg) into a fresh msg: a member that is present
\* sets its field, the other fields keep their zero value.
Unmarshal(doc) ==
    [type |-> IF "type" \in DOMAIN doc.str THEN doc.str["type"] ELSE "",
     user_id |->
        IF "user_id" \in DOMAIN doc.str THEN doc.str["user_id"] ELSE "",
     song_id |->
        IF "song_id" \in DOMAIN doc.str THEN doc.str["song_id"] ELSE "",
     position |->
        IF "position" \in DOMAIN doc.num THEN doc.num["position"] ELSE 0,
     volume |-> IF "volume" \in DOMAIN doc.num THEN doc.num["volume"] ELSE 0,
     timestamp |->
        IF "timestamp" \in DOMAIN doc.num THEN doc.num["timestamp"] ELSE 0]

\* Marshal with Volume tagged json:"-": the field is never written.
MarshalNoVolume(m) ==
    [str |-> [k \in {"type"}
                    \cup (IF m.user_id # "" THEN {"user_id"} ELSE {})
                    \cup (IF m.song_id # "" THEN {"song_id"} ELSE {})
                |-> m[k]],
     num |-> [k \in {"timestamp"}
                    \cup (IF m.position # 0 THEN {"position"} ELSE {})
                |-> m[k]]]

\* json.Marshal(msg) with the struct tags of lines 28-33: type and
\* timestamp are always written, an omitempty member only if its field is
\* not the zero value.
Marshal(m) ==
    [str |-> [k \in {"type"}
                    \cup (IF m.user_id # "" THEN {"user_id"} ELSE {})
                    \cup (IF m.song_id # "" THEN {"song_id"} ELSE {})
                |-> m[k]],
     num |-> [k \in {"timestamp"}
                    \cup (IF m.position # 0 THEN {"position"} ELSE {})
                    \cup (IF m.volume # 0 THEN {"volume"} ELSE {})
                |-> m[k]]]

\* json.Unmarshal of the document at hand.
JDecode ==
    /\ jpc = "doc"
    /\ jmsg' = Unmarshal(jdoc)
    /\ jpc' = "decoded"
    /\ UNCHANGED <<server, jdoc, jenc, jout, stream, client>>

\* json.Marshal of the struct.
JEncode ==
    /\ jpc = "decoded"
    /\ jenc' = Marshal(jmsg)
    /\ jpc' = "encoded"
    /\ UNCHANGED <<server, jdoc, jmsg, jout, stream, client>>

\* json.Unmarshal of what Marshal wrote.
JDecodeAgain ==
    /\ jpc = "encoded"
    /\ jout' = Unmarshal(jenc)
    /\ jpc' = "again"
    /\ UNCHANGED <<server, jdoc, jmsg, jenc, stream, client>>

NextJson == JDecode \/ JEncode \/ JDecodeAgain

\* Any document of Docs is decoded, encoded and decoded again.
InitJson ==
    /\ ServerInit({}) /\ StreamIdle /\ ClientInit
    /\ jdoc \in Docs
    /\ jpc = "doc" /\ jmsg = ZeroMsg /\ jenc = EmptyDoc /\ jout = ZeroMsg

SpecJson == InitJson /\ [][NextJson]_vars

\* ---------------------------------------------------- streamSongHandler
\* The characters of a request path: a dot, the separator, and a letter.
Chars == {".", "/", "a"}

Paths == UNION {[1..n -> Chars] : n \in 0..MaxPath}

\* strings.HasPrefix(filePath, "..") in the place of HasDotDot.
HasDotDotPrefix(p) == Len(p) >= 2 /\ p[1] = "." /\ p[2] = "."

\* strings.Contains(filePath, "..").
HasDotDot(p) == \E i \in 1..(Len(p) - 1) : p[i] = "." /\ p[i + 1] = "."

\* The elements of p from character i on, cur being the element under
\* way: what lies between the separators.
RECURSIVE SplitFrom(_, _, _)
SplitFrom(p, i, cur) ==
    IF i > Len(p) THEN <<cur>>
    ELSE IF p[i] = "/" THEN <<cur>> \o SplitFrom(p, i + 1, <<>>)
    ELSE SplitFrom(p, i + 1, Append(cur, p[i]))

\* filepath.Clean on the elements of a relative path: an empty element
\* and "." go, ".." takes the element before it away, or stays if there is
\* none to take.
RECURSIVE CleanEls(_, _)
CleanEls(els, stack) ==
    IF els = <<>> THEN stack
    ELSE LET el == Head(els)
             n == Len(stack)
         IN  CleanEls(Tail(els),
                 IF el = <<>> \/ el = <<".">> THEN stack
                 ELSE IF el = <<".", ".">> /\ n > 0
                         /\ stack[n] # <<".", ".">>
                      THEN SubSeq(stack, 1, n - 1)
                      ELSE Append(stack, el))

\* filepath.Join("songs", filePath), as the elements of the result; the
\* empty result is ".".
JoinSongs(p) ==
    LET r == CleanEls(<<<<"songs">>>> \o SplitFrom(p, 1, <<>>), <<>>)
    IN  IF r = <<>> THEN <<<<".">>>> ELSE r

\* streamSongHandler on the path sreq.  Status 200 stands for the call of
\* http.ServeFile; os.Stat finds the file or does not.
StreamSong ==
    /\ sres = NoResponse
    /\ IF HasDotDot(sreq)
       THEN sres' = [status |-> 400, stat |-> <<>>, served |-> <<>>]
       ELSE \E exists \in BOOLEAN :
            sres' = [status |-> IF exists THEN 200 ELSE 404,
                     stat |-> JoinSongs(sreq),
                     served |-> IF exists THEN JoinSongs(sreq) ELSE <<>>]
    /\ UNCHANGED <<server, codec, sreq, client>>

\* A request for any path of Paths is served.
InitStream ==
    /\ ServerInit({}) /\ CodecIdle /\ ClientInit
    /\ sreq \in Paths
    /\ sres = NoResponse

SpecStream == InitStream /\ [][StreamSong]_vars

\* ------------------------------------------------------ MusicSyncClient
\* this.userID, and the user_id of somebody else.
Self == "me"
Friend == "friend"

\* ws.send(JSON.stringify(message)) behind the test of isConnected that
\* opens every send method.
Transmit(kind) ==
    csent' = IF cconn THEN [n |-> 1 - csent.n, last |-> kind] ELSE csent

\* ws.onopen, and the sendPresence it calls: presence is sent and the next
\* sendPresence is set for 30 seconds later.
OnOpen ==
    /\ cws = "connecting"
    /\ cpres < MaxPres
    /\ cws' = "open"
    /\ cconn' = TRUE
    /\ csent' = [n |-> 1 - csent.n, last |-> "presence"]
    /\ cpres' = cpres + 1
    /\ UNCHANGED <<server, codec, stream, ctimer, cplaying, csong, cpos,
                   clog, cnote, cin>>

\* OnClose without the setTimeout.
OnCloseNoRetry ==
    /\ cws \in {"connecting", "open"}
    /\ cws' = "closed"
    /\ cconn' = FALSE
    /\ UNCHANGED <<server, codec, stream, ctimer, cpres, cplaying, csong,
                   cpos, csent, clog, cnote, cin>>

\* ws.onclose, after a failed attempt or the end of a connection.
OnClose ==
    /\ cws \in {"connecting", "open"}
    /\ cws' = "closed"
    /\ cconn' = FALSE
    /\ ctimer' = ReconnectDelay
    /\ UNCHANGED <<server, codec, stream, cpres, cplaying, csong, cpos,
                   csent, clog, cnote, cin>>

\* A second of the reconnect timeout passes.
TimerTick ==
    /\ ctimer > 0
    /\ ctimer' = ctimer - 1
    /\ UNCHANGED <<server, codec, stream, cws, cconn, cpres, cplaying,
                   csong, cpos, csent, clog, cnote, cin>>

\* The reconnect timeout fires: initializeWebSocket makes a new socket.
Reconnect ==
    /\ ctimer = 0
    /\ ctimer' = -1
    /\ cws' = "connecting"
    /\ UNCHANGED <<server, codec, stream, cconn, cpres, cplaying, csong,
                   cpos, csent, clog, cnote, cin>>

\* A sendPresence timeout fires: disconnected, it returns; connected, it
\* sends and sets the next timeout.
PresenceFire ==
    /\ cpres > 0
    /\ IF cconn
       THEN /\ csent' = [n |-> 1 - csent.n, last |-> "presence"]
            /\ UNCHANGED cpres
       ELSE /\ cpres' = cpres - 1
            /\ UNCHANGED csent
    /\ UNCHANGED <<server, codec, stream, cws, cconn, ctimer, cplaying,
                   csong, cpos, clog, cnote, cin>>

\* The listeners of setupAudioEventListeners.
SongPlay(song, pos) ==
    /\ csong' = song
    /\ cpos' = pos
    /\ cplaying' = TRUE
    /\ Transmit("play")
    /\ UNCHANGED <<server, codec, stream, cws, cconn, ctimer, cpres, clog,
                   cnote, cin>>

SongPause(pos) ==
    /\ cpos' = pos
    /\ cplaying' = FALSE
    /\ Transmit("pause")
    /\ UNCHANGED <<server, codec, stream, cws, cconn, ctimer, cpres, csong,
                   clog, cnote, cin>>

SongSeek(pos) ==
    /\ cpos' = pos
    /\ Transmit("seek")
    /\ UNCHANGED <<server, codec, stream, cws, cconn, ctimer, cpres,
                   cplaying, csong, clog, cnote, cin>>

VolumeChange ==
    /\ Transmit("volume")
    /\ UNCHANGED <<server, codec, stream, cws, cconn, ctimer, cpres,
                   cplaying, csong, cpos, clog, cnote, cin>>

\* IsOwn as a client that takes no message for its own.
IsOwnNever(m) == FALSE

\* handleSyncMessage: message.user_id === this.userID.
IsOwn(m) == m.user_id = Self

\* Stale with the comparison >=.
StaleAtWindow(m, t2) == t2 - 2 * m.timestamp >= 2 * FreshWindow

\* syncPlay and syncPause: messageAge > 5, the age being Date.now() / 1000
\* less the timestamp.  t2 is Date.now() in half seconds.
Stale(m, t2) == t2 - 2 * m.timestamp > 2 * FreshWindow

\* SyncPlay as a handler that starts the friend's song.
SyncPlayStarts(m, t2) ==
    IF Stale(m, t2)
    THEN UNCHANGED <<clog, cnote, cplaying, csong, cpos>>
    ELSE /\ clog' = [n |-> 1 - clog.n, last |-> "play"]
         /\ cplaying' = TRUE
         /\ csong' = m.song_id
         /\ cpos' = m.position
         /\ UNCHANGED cnote

\* syncPlay.  A recent message is logged.  The argument message.user_id
\* of the call of showFriendPlaying names a variable syncPlay does not
\* have: it throws, and onmessage catches, unless the page has a global
\* of that name, and then the notification is made for friend undefined.
SyncPlay(m, t2) ==
    IF Stale(m, t2)
    THEN UNCHANGED <<clog, cnote, cplaying, csong, cpos>>
    ELSE /\ clog' = [n |-> 1 - clog.n, last |-> "play"]
         /\ \E global \in BOOLEAN :
                cnote' = IF global THEN cnote \cup {"friend-undefined"}
                         ELSE cnote
         /\ UNCHANGED <<cplaying, csong, cpos>>

\* syncPause.
SyncPause(m, t2) ==
    /\ clog' = IF Stale(m, t2) THEN clog
               ELSE [n |-> 1 - clog.n, last |-> "pause"]
    /\ UNCHANGED <<cnote, cplaying, csong, cpos>>

\* ws.onmessage with a frame that parses to m, Date.now() giving t2 half
\* seconds: handleSyncMessage.  syncSeek, syncVolume and syncPlaylist are
\* not defined: the call throws and onmessage catches.
OnMessage(m, t2) ==
    /\ cws = "open"
    /\ cin' = [type |-> m.type, user_id |-> m.user_id,
               song_id |-> m.song_id, position |-> m.position,
               timestamp |-> m.timestamp, t2 |-> t2, n |-> 1 - cin.n]
    /\ IF IsOwn(m)
       THEN UNCHANGED <<clog, cnote, cplaying, csong, cpos>>
       ELSE IF m.type = "play" THEN SyncPlay(m, t2)
       ELSE IF m.type = "pause" THEN SyncPause(m, t2)
       ELSE UNCHANGED <<clog, cnote, cplaying, csong, cpos>>
    /\ UNCHANGED <<server, codec, stream, cws, cconn, ctimer, cpres, csent>>

\* The songs and positions of the local player's events.
Songs == {"s1", "s2"}
Positions == {0, 3}

\* The messages the server relays to the client, all stamped StartTime,
\* and the times at which the client reads its clock: 5, 5.5 and 6
\* seconds later.
InMsgs ==
    [type : {"play", "pause", "seek"}, user_id : {Self, Friend},
     song_id : Songs, position : {3}, timestamp : {StartTime}]

ReadTimes == {2 * StartTime + 2 * FreshWindow + d : d \in 0..2}

\* The socket and the timers of the client, and the local player.
ConnStep ==
    \/ OnOpen
    \/ OnClose
    \/ TimerTick
    \/ Reconnect
    \/ PresenceFire
    \/ \E song \in Songs : \E pos \in Positions : SongPlay(song, pos)
    \/ \E pos \in Positions : SongPause(pos) \/ SongSeek(pos)
    \/ VolumeChange

\* A message arrives.
MsgStep == \E m \in InMsgs : \E t2 \in ReadTimes : OnMessage(m, t2)

\* One connection of the client, from the attempt to the close: the user
\* plays and pauses, and messages arrive.
SessionStep ==
    \/ OnOpen
    \/ OnClose
    \/ \E song \in Songs : \E pos \in Positions : SongPlay(song, pos)
    \/ \E pos \in Positions : SongPause(pos)

NextClient == SessionStep \/ MsgStep

ClientStart == ServerInit({}) /\ CodecIdle /\ StreamIdle /\ ClientInit

SpecClient == ClientStart /\ [][NextClient]_vars

\* The same client without incoming messages.  Its timeouts fire when they
\* are due, and of the connection attempts, made again and again, one
\* succeeds.
LiveClient ==
    /\ ClientStart
    /\ [][ConnStep]_vars
    /\ WF_vars(TimerTick) /\ WF_vars(Reconnect) /\ WF_vars(PresenceFire)
    /\ SF_vars(OnOpen)

\* An API request is served.
ApiStep == SendSync \/ HubBroadcastApi

NextApi == NextPair \/ ApiStep

\* Two connections, both peers send, and the server sends too.
SpecApi == InitWith({"A", "B"}) /\ [][NextApi]_vars

\* The hub and the pumps of connections whose peers send nothing.
ListenStep ==
    \E c \in Conn :
        \/ HubRegister(c) \/ HubUnregister(c) \/ FanoutVisit(c)
        \/ TransportFail(c) \/ ReadError(c)
        \/ WriteMessage(c) \/ WriteClose(c)

NextSync == ListenStep \/ Tick \/ ApiStep

\* Two connections that only listen, a running clock, and API requests.
SpecSync == InitWith({"A", "B"}) /\ [][NextSync]_vars

LateStep == \E c \in {"A", "B"} : LateFrame(c)

NextLate == NextPair \/ LateStep

\* Two connections, both peers send, and one frame more than elsewhere:
\* enough to fill a queue, overflow it, and send again.
SpecLate == InitWith({"A", "B"}) /\ [][NextLate]_vars

\* Timestamps a peer puts in a frame: FreshWindow seconds back when the
\* frame is read, or one second more.
PeerTs == {now - FreshWindow, now - FreshWindow - 1}

\* The clock advances, or a frame arrives that carries its own timestamp.
ClockStep ==
    \/ Tick
    \/ \E c \in Senders : \E ts0 \in PeerTs : ReadFrame(c, ts0)

NextClock == Next \/ ClockStep

\* Two connections, a running clock, and frames with and without a
\* timestamp of their own.
SpecClock == InitWith({"A", "B"}) /\ [][NextClock]_vars

TypeOK ==
    /\ Clients \subseteq Conn
    /\ htodo \subseteq Conn
    /\ hpc \in {"select", "fanout", "panic"}
    /\ \A c \in Conn :
        /\ rpc[c] \in {"absent", "register", "read", "decode", "bcast",
                     "unreg", "done"}
        /\ wpc[c] \in {"idle", "recv", "done"}
        /\ sock[c] \in {"open", "down"}
        /\ Len(written[c]) <= MaxMsgs + 2
    /\ apc \in {"idle", "bcast"}

\* ------------------------------------------------------------ properties
\* The items of a queue.
Items(q) == {q[i] : i \in 1..Len(q)}

\* This step is the range loop's iteration for entry c.
Visits(c) == hpc = "fanout" /\ c \in htodo /\ c \notin htodo'

\* This step is the hub taking a message from c's readPump.
Accepts(c) == rpc[c] = "bcast" /\ rpc'[c] = "read"

\* C1, as claimed: no connection's outbound queue ever holds a message that
\* its own read path submitted.
C1_NoEcho ==
    \A c \in Conn : \A m \in Items(Send[c]) : m.origin # c

\* C1, amended: the fan-out makes no exception for the sender.  When the
\* loop reaches the connection that submitted the message and its queue has
\* a free slot, the message is appended to that connection's own queue.
C1_EchoToSender ==
    [][\A c \in Conn :
        (Visits(c) /\ hmsg.origin = c /\ Len(Send[c]) < SendCap)
            => Send'[c] = Append(Send[c], hmsg)]_vars

\* A connection holds its own message in its outbound queue.
C1_Witness ==
    \E c \in Conn : \E m \in Items(Send[c]) : m.origin = c

\* C2: a broadcast is enqueued exactly once on every connection that is
\* registered when the hub takes it, is not the sender and has a free slot:
\* the loop starts over the whole registry, each iteration handles one
\* entry and ends the loop only when none is left, an iteration for such a
\* connection appends the message, and a queue grows in no other way than
\* by its own iteration appending the message once.
C2_ExactlyOnce ==
    [][/\ \A s \in Conn : Accepts(s) =>
            /\ htodo' = Clients
            /\ Clients # {} => (hpc' = "fanout" /\ hmsg' = rmsg[s])
       /\ hpc = "fanout" =>
            \/ htodo' = htodo /\ hpc' = hpc /\ hmsg' = hmsg
            \/ /\ \E c \in htodo : htodo' = htodo \ {c}
               /\ hpc' = IF htodo' = {} THEN "select" ELSE "fanout"
               /\ hpc' = "fanout" => hmsg' = hmsg
       /\ \A c \in Conn :
            (Visits(c) /\ c # hmsg.origin /\ Len(Send[c]) < SendCap)
                => Send'[c] = Append(Send[c], hmsg)
       /\ \A c \in Conn :
            Len(Send'[c]) > Len(Send[c])
                => (Visits(c) /\ Send'[c] = Append(Send[c], hmsg))]_vars

\* A sends while B and C are registered: each holds exactly one copy.
C2_Witness ==
    \E m \in Items(Send["B"]) :
        /\ m.origin = "A"
        /\ Send["B"] = <<m>>
        /\ Send["C"] = <<m>>

\* C3, as claimed: a message older than FreshWindow seconds when the hub
\* processes it is not enqueued on any connection's queue (stated here for
\* the queues of the sender's peers, which is the least the claim says).
C3_StaleNotEnqueued ==
    [][\A c \in Conn :
        (Visits(c) /\ c # hmsg.origin /\ Age(hmsg) > FreshWindow)
            => Send'[c] = Send[c]]_vars

\* C3, amended: the hub applies no age check.  Whatever the age of a
\* message, the hub starts the fan-out for it when it takes it, and each
\* iteration of the loop appends it to a queue with a free slot: so for a
\* message older than FreshWindow seconds at that time, and so for one of
\* age FreshWindow or less.
C3_NoAgeCheck ==
    [][/\ \A s \in Conn : (Accepts(s) /\ Clients # {}) =>
            (hpc' = "fanout" /\ hmsg' = rmsg[s] /\ htodo' = Clients)
       /\ \A c \in Conn :
            (Visits(c) /\ Len(Send[c]) < SendCap /\ Age(hmsg) > FreshWindow)
                => Send'[c] = Append(Send[c], hmsg)
       /\ \A c \in Conn :
            (Visits(c) /\ Len(Send[c]) < SendCap /\ Age(hmsg) <= FreshWindow)
                => Send'[c] = Append(Send[c], hmsg)]_vars

\* The queue of a peer of the sender holds a message that was older than
\* FreshWindow seconds when the run started, hence when the hub processed
\* it.
C3_Witness ==
    \E c \in Conn : \E m \in Items(Send[c]) :
        m.origin # c /\ StartTime - m.ts > FreshWindow

\* C4: when the loop reaches a connection whose queue is full, that
\* iteration removes it from the registry and closes its queue, buffers
\* nothing more for it, touches no other connection and goes on with the
\* loop; an iteration for a connection with a free slot appends the message
\* and leaves the connection registered with its queue open.
C4_EvictFull ==
    [][/\ \A a \in Conn : (Visits(a) /\ Len(Send[a]) >= SendCap) =>
            /\ a \in Clients /\ a \notin Clients'
            /\ closes[a] = 0 /\ closes'[a] = 1
            /\ Send'[a] = Send[a]
            /\ htodo' = htodo \ {a}
            /\ hpc' = IF htodo' = {} THEN "select" ELSE "fanout"
            /\ \A d \in Conn \ {a} :
                /\ Send'[d] = Send[d]
                /\ closes'[d] = closes[d]
                /\ d \in Clients' <=> d \in Clients
       /\ \A d \in Conn : (Visits(d) /\ Len(Send[d]) < SendCap) =>
            /\ Send'[d] = Append(Send[d], hmsg)
            /\ d \in Clients'
            /\ closes'[d] = 0]_vars

\* One connection was evicted in the fan-out of a message that another,
\* still registered, connection holds in its queue.
C4_Witness ==
    \E a \in Conn : \E b \in Clients :
        /\ evictedBy[a] > 0
        /\ \E m \in Items(Send[b]) : m.id = evictedBy[a]

\* C5: a connection's queue is closed at most once, never while the
\* connection is registered, and a step closes it exactly when that step
\* removes the connection from the registry.
C5_ClosedOnceAtRemoval ==
    /\ [](\A c \in Conn : closes[c] <= 1 /\ (c \in Clients => closes[c] = 0))
    /\ [][\A c \in Conn :
            closes'[c] # closes[c] <=> (c \in Clients /\ c \notin Clients')]_vars

\* One connection was evicted and its Unregister came afterwards, another
\* was removed by its Unregister: each queue was closed once.
C5_Witness ==
    \E a, b \in Conn :
        /\ evictedBy[a] > 0 /\ unregs[a] = 1 /\ closes[a] = 1
        /\ evictedBy[b] = 0 /\ unregs[b] = 1 /\ closes[b] = 1

\* C6: the hub takes at most one Unregister signal from a connection, and
\* exactly one by the time its handler has returned, whichever of read
\* path, write path or hub ended the connection.
C6_OneUnregisterSignal ==
    \A c \in Conn :
        /\ unregs[c] <= 1
        /\ rpc[c] = "done" <=> unregs[c] = 1

\* Three ended connections, one signal each: one evicted by the hub, one
\* whose write path ended before its read path gave the signal, one whose
\* write path is still running after the signal.
C6_Witness ==
    \E a, b, c \in Conn :
        /\ rpc[a] = "done" /\ unregs[a] = 1 /\ evictedBy[a] > 0
        /\ rpc[b] = "done" /\ unregs[b] = 1 /\ evictedBy[b] = 0
        /\ wpc[b] = "done"
        /\ rpc[c] = "done" /\ unregs[c] = 1 /\ evictedBy[c] = 0
        /\ wpc[c] = "recv"

\* C7: the hub loop does not wait on any outbound queue.  Under fair
\* scheduling of the hub alone, whatever the queues hold and however long
\* the write paths stall, a started fan-out runs to its end and every
\* goroutine blocked on hub.Register, hub.Broadcast or hub.Unregister is
\* taken.
C7_HubNeverBlocks ==
    /\ (hpc = "fanout") ~> (hpc = "select")
    /\ \A c \in Conn :
        /\ (rpc[c] = "register") ~> (rpc[c] = "read")
        /\ (rpc[c] = "bcast") ~> (rpc[c] = "read")
        /\ (rpc[c] = "unreg") ~> (rpc[c] = "done")

\* The hub is back at its select after a fan-out that met a full queue,
\* while another connection's queue is full and its write path has not
\* taken anything from it.
C7_Witness ==
    /\ hpc = "select"
    /\ \E a \in Conn : evictedBy[a] > 0
    /\ \E d \in Clients : Len(Send[d]) = SendCap /\ wpc[d] = "recv"

\* C8: once the hub has processed a connection's Unregister, that
\* connection is never again in the registry or in a broadcast's loop and
\* its queue never grows; every connection that is registered when a later
\* broadcast is taken is in that broadcast's loop, and its iteration
\* appends the message when the queue has a free slot.
C8_NoDeliveryAfterUnregister ==
    [][/\ \A b \in Conn : unregs[b] > 0 =>
            /\ b \notin Clients'
            /\ b \notin htodo'
            /\ Len(Send'[b]) <= Len(Send[b])
       /\ \A s \in Conn : Accepts(s) => htodo' = Clients
       /\ \A d \in Conn : (Visits(d) /\ unregs[d] = 0 /\ Len(Send[d]) < SendCap)
            => hmsg \in Items(Send'[d])]_vars

\* B was removed by its Unregister before the hub took a message of A, and
\* the loop for that message has put it in C's queue.
C8_Witness ==
    /\ hpc = "fanout"
    /\ hmsg.origin = "A"
    /\ unregs["B"] = 1 /\ evictedBy["B"] = 0 /\ closes["B"] = 1
    /\ "C" \notin htodo
    /\ hmsg \in Items(Send["C"])

\* C9: when the hub takes the Unregister of a connection that is not in the
\* registry, the registry, every queue and every close count stay as they
\* are and the hub is back at its select.
C9_UnregisterIdempotent ==
    [][\A c \in Conn :
        (rpc[c] = "unreg" /\ rpc'[c] = "done" /\ c \notin Clients) =>
            /\ Clients' = Clients
            /\ Send' = Send
            /\ closes' = closes
            /\ hpc' = "select"]_vars

\* The hub has taken the Unregister of a connection it had evicted before.
C9_Witness ==
    \E c \in Conn : evictedBy[c] > 0 /\ unregs[c] = 1 /\ c \notin Clients

\* C10: no outbound queue ever holds more than SendCap items.
C10_QueueBounded ==
    \A c \in Conn : Len(Send[c]) <= SendCap

\* A broadcast met a full queue: the connection was evicted and its queue
\* still holds SendCap items.
C10_Witness ==
    \E c \in Conn : evictedBy[c] > 0 /\ Len(Send[c]) = SendCap

\* What connection r has been sent by the hub and has not lost: the
\* messages on its socket followed by the ones still in its queue.
Stream(r) == SelectSeq(written[r], LAMBDA m : m # CloseFrame) \o Send[r]

C12_FailedIsRemoved ==
    \A c \in Conn :
        (sock[c] = "down") ~> (c \notin Clients /\ closes[c] > 0)

\* A connection whose transport failed while it was registered has been
\* removed by the Unregister its read path sent, not by an eviction.
C12_Witness ==
    \E c \in Conn :
        /\ sock[c] = "down"
        /\ evictedBy[c] = 0
        /\ unregs[c] = 1
        /\ c \notin Clients
        /\ closes[c] = 1
        /\ wpc[c] = "recv"

\* C13, as claimed: an evicted connection takes no further part.  No
\* message that the hub takes from a connection after evicting it is
\* enqueued on any queue, and the queue of an evicted connection never
\* grows.
C13_EvictedTakesNoPart ==
    [][/\ \A r \in Conn :
            (/\ Visits(r)
             /\ hmsg.origin \in Conn
             /\ evictedBy[hmsg.origin] \notin {0, hmsg.id})
                => Send'[r] = Send[r]
       /\ \A c \in Conn :
            evictedBy[c] > 0 => Len(Send'[c]) <= Len(Send[c])]_vars

\* C14: Hub.Run never panics.  Every registry entry, and so every entry
\* the range loop has still to visit, has an open queue: the hub never
\* sends on a closed channel.  No channel is closed twice.  And the hub is
\* always either at its select or inside a range loop with an entry left to
\* visit, from which the loop's own steps take it back to the select.
C14_HubNeverFails ==
    /\ hpc # "panic"
    /\ \A c \in Clients : closes[c] = 0
    /\ \A c \in Conn : closes[c] <= 1
    /\ htodo \subseteq Clients
    /\ hpc = "fanout" <=> htodo # {}

\* The hub is back at its select after an eviction, the Unregister of the
\* evicted connection and the Unregister of a connection it had not
\* evicted, with a connection still registered.
C14_Witness ==
    /\ hpc = "select"
    /\ Clients # {}
    /\ \E c, d \in Conn :
        /\ evictedBy[c] > 0 /\ unregs[c] = 1
        /\ evictedBy[d] = 0 /\ unregs[d] = 1

\* C15: only Hub.Run changes the registry.  Every step that changes it is
\* the hub's Register case, its Unregister case or an iteration of its
\* range loop; a step of a readPump, a writePump, a connection handler, a
\* transport or a send helper leaves it as it is.
C15_OnlyHubChangesRegistry ==
    [][/\ Clients' # Clients =>
            \E c \in Conn :
                HubRegister(c) \/ HubUnregister(c) \/ FanoutVisit(c)
       /\ (\/ \E c \in Conn : TransportFail(c) \/ ReadError(c)
           \/ \E c \in Conn : ReadFrame(c, 0)
           \/ \E c \in Conn : WriteMessage(c) \/ WriteClose(c)
           \/ SendSync) => Clients' = Clients]_vars

\* Both pumps of a connection and the send helper have run, and the hub
\* has added to the registry and removed from it: a message of the server
\* is on a connection's socket and another connection has left.
C15_Witness ==
    \E c, d \in Conn :
        /\ \E m \in Items(written[c]) : m.origin = "server"
        /\ unregs[d] = 1
        /\ c \in Clients

\* C16: a fan-out is atomic with respect to the registry.  While the range
\* loop of one broadcast runs, no handler blocked on Register and no
\* readPump blocked on Unregister is taken, and the registry changes only
\* when the loop evicts the entry it is visiting.
C16_FanoutAtomic ==
    [][hpc = "fanout" =>
        /\ \A c \in Conn :
            rpc[c] \in {"register", "unreg"} => rpc'[c] = rpc[c]
        /\ \/ Clients' = Clients
           \/ \E c \in Conn :
                /\ Visits(c)
                /\ Len(Send[c]) = SendCap
                /\ Clients' = Clients \ {c}]_vars

\* In the middle of a fan-out, one entry served and one still to visit,
\* a connection is waiting on Register or Unregister.
C16_Witness ==
    /\ hpc = "fanout"
    /\ htodo # {}
    /\ \E e \in Conn \ htodo : hmsg \in Items(Send[e])
    /\ \E c \in Conn : rpc[c] \in {"register", "unreg"}

\* C17: under fair scheduling, and with writes on the socket that return,
\* the writePump of a connection whose queue has been closed, by Unregister
\* or by eviction, eventually returns.
C17_WriterTerminates ==
    \A c \in Conn : (closes[c] > 0) ~> (wpc[c] = "done")

\* The writePump of a connection that was unregistered, not evicted, has
\* returned.
C17_Witness ==
    \E c \in Conn :
        /\ closes[c] > 0
        /\ evictedBy[c] = 0
        /\ wpc[c] = "done"

Decodes(c) == rpc[c] = "decode" /\ rpc'[c] # "decode"

\* C19: a message handed to hub.Broadcast has a timestamp.  A readPump
\* blocked on hub.Broadcast holds a message whose timestamp is not zero;
\* the message made from a frame without a timestamp, or with a zero one,
\* carries the time at which readPump handled the frame, and the message
\* made from a frame with a timestamp carries that timestamp.
C19_TimestampFilled ==
    /\ [](\A c \in Conn : rpc[c] = "bcast" => rmsg[c].ts # 0)
    /\ [][\A c \in Conn : (Decodes(c) /\ rpc'[c] = "bcast") =>
            rmsg'[c].ts = IF rframe[c].ts0 = 0 THEN now
                          ELSE rframe[c].ts0]_vars

\* A connection's socket carries a message whose timestamp is older than
\* the start of the run, so came with the frame, and one whose timestamp
\* the server set.
C19_Witness ==
    \E c \in Conn : \E m, n \in Items(written[c]) :
        /\ m.origin = c /\ n.origin = c
        /\ m.ts < StartTime
        /\ n.ts >= StartTime

\* The kinds the specification enumerates.
SpecKinds ==
    {"play", "pause", "seek", "volume-change", "playlist-change", "presence"}

\* C20, as claimed: a frame that is not well-formed, or whose kind is not
\* one of the enumerated ones, is not submitted to the hub.
C20_UnknownKindDropped ==
    [][\A c \in Conn :
        (Decodes(c) /\ (~rframe[c].json \/ rframe[c].kind \notin SpecKinds))
            => rpc'[c] # "bcast"]_vars

\* C20, amended: only a frame that does not unmarshal is dropped, and the
\* read path goes on with the next frame.  A frame that unmarshals is
\* submitted to the hub with the kind it came with, whatever that is.
C20_OnlyMalformedDropped ==
    [][\A c \in Conn : Decodes(c) =>
        IF rframe[c].json
        THEN /\ rpc'[c] = "bcast"
             /\ rmsg'[c].id = rframe[c].id
             /\ rmsg'[c].kind = rframe[c].kind
        ELSE /\ rpc'[c] = "read"
             /\ rmsg'[c] = rmsg[c]]_vars

\* A message of a kind that the specification does not enumerate is on a
\* connection's queue, and the frame before it, which did not unmarshal,
\* has reached no queue and no socket although no write has failed.
C20_Witness ==
    \E c \in Conn : \E m \in Items(Send[c]) :
        /\ m.kind \notin SpecKinds
        /\ m.id = 2
        /\ sock[c] = "open"
        /\ \A d \in Conn : \A k \in Items(Send[d]) \cup Items(written[d]) :
                k.id # 1

\* C21: a frame that does not unmarshal costs its connection nothing but
\* the frame.  The step that rejects it submits nothing, leaves the
\* registry, the queues, the close counts, the Unregister signals and the
\* socket as they are, and puts readPump back at ReadMessage, not on its
\* way out.
C21_MalformedNonFatal ==
    [][\A c \in Conn : (Decodes(c) /\ ~rframe[c].json) =>
        /\ rpc'[c] = "read"
        /\ rmsg' = rmsg
        /\ UNCHANGED <<Clients, Send, closes, sock, unregs, hpc, hmsg,
                       htodo, wpc>>]_vars

\* A connection whose first frame did not unmarshal (no queue and no
\* socket has it, and no write has failed) is still registered, has sent
\* no Unregister, and has its second frame ready for the hub.
C21_Witness ==
    \E c \in Clients :
        /\ rpc[c] = "bcast"
        /\ rmsg[c].id = 2
        /\ unregs[c] = 0
        /\ sock[c] = "open"
        /\ Send[c] = <<>>
        /\ written[c] = <<>>

\* C22: decode after encode gives back every field of a message that
\* decode produced, also the fields that hold their zero value and are
\* left out of the encoded form.
C22_RoundTrip ==
    jpc = "again" =>
        /\ jout = jmsg
        /\ \A k \in {"user_id", "song_id"} :
                jmsg[k] = "" => k \notin DOMAIN jenc.str
        /\ \A k \in {"position", "volume"} :
                jmsg[k] = 0 => k \notin DOMAIN jenc.num

\* A message with a zero position, which the document gave in so many
\* words, and a volume that is not zero went through: the encoded form has
\* the volume and not the position.
C22_Witness ==
    /\ jpc = "again"
    /\ "position" \in DOMAIN jdoc.num
    /\ jmsg.position = 0
    /\ jmsg.volume # 0
    /\ "position" \notin DOMAIN jenc.num
    /\ "volume" \in DOMAIN jenc.num

\* C23: Register cannot fail.  A handler blocked on hub.Register is
\* eventually taken, under fair scheduling of the hub, and the step that
\* takes it puts the connection in the registry and starts its pumps.
\* Until then neither pump runs, the connection is not registered and its
\* queue is empty.  From then on the connection is in every fan-out: the
\* range loop of a broadcast starts over the whole registry, and its
\* iteration for a connection appends the message to the queue or, the
\* queue being full, removes the connection.
C23_RegisterNeverFails ==
    /\ \A c \in Conn : (rpc[c] = "register") ~> (c \in Clients)
    /\ [](\A c \in Conn : rpc[c] = "register" =>
            wpc[c] = "idle" /\ c \notin Clients /\ Send[c] = <<>>)
    /\ [][/\ \A c \in Conn :
                (rpc[c] = "register" /\ rpc'[c] # "register") =>
                    c \in Clients' /\ rpc'[c] = "read" /\ wpc'[c] = "recv"
          /\ (hpc = "select" /\ hmsg' # NoMsg) =>
                htodo' = Clients /\ hpc' = "fanout"
          /\ \A c \in Conn : Visits(c) =>
                \/ Send'[c] = Append(Send[c], hmsg)
                \/ c \notin Clients']_vars

\* A connection that registered after the first broadcast was fanned out
\* holds the second, which another connection submitted.
C23_Witness ==
    \E c \in Clients : \E d \in Conn \ {c} :
        /\ \E m \in Items(Send[c]) : m.id = 2 /\ m.origin = d
        /\ \E m \in Items(written[d]) : m.id = 1
        /\ written[c] = <<>>
        /\ sock[c] = "open"

\* C24: the registry is keyed by connection, not by user.  For two
\* connections of one user: the step that registers one leaves the other's
\* entry alone, the step that removes one (Unregister or eviction) leaves
\* the other's entry, queue and close count alone, and the iteration of a
\* fan-out for one does not touch the other's queue.
C24_IdentityIsConnection ==
    [][\A c, d \in Conn : (c # d /\ UserID[c] = UserID[d]) =>
        /\ (c \in Clients <=> c \notin Clients') =>
                /\ d \in Clients <=> d \in Clients'
                /\ closes'[d] = closes[d]
                /\ Send'[d] = Send[d]
        /\ Visits(c) => Send'[d] = Send[d] /\ closes'[d] = closes[d]]_vars

\* Two connections of one user have both been sent one message; one of
\* them has since been removed and its queue closed, the other is still
\* registered with an open queue.
C24_Witness ==
    \E c, d \in Conn :
        /\ c # d /\ UserID[c] = UserID[d]
        /\ c \notin Clients /\ closes[c] = 1
        /\ d \in Clients /\ closes[d] = 0
        /\ \E m \in Items(Stream(c)) : m \in Items(Stream(d))

\* C25: the handler's answer to a path with two dots in a row is 400, and
\* it has given no path to Stat or ServeFile.  For any other path the path
\* it gives to Stat, and to ServeFile if the file exists, starts with the
\* songs directory and has no ".." element.
C25_NoTraversal ==
    sres # NoResponse =>
        IF \E i \in 1..(Len(sreq) - 1) : sreq[i] = "." /\ sreq[i + 1] = "."
        THEN sres = [status |-> 400, stat |-> <<>>, served |-> <<>>]
        ELSE /\ sres.status \in {200, 404}
             /\ sres.stat[1] = <<"songs">>
             /\ \A i \in 1..Len(sres.stat) : sres.stat[i] # <<".", ".">>
             /\ sres.served \in {<<>>, sres.stat}

\* A path with single dots and doubled separators, and no two dots in a
\* row, has been cleaned and served from the songs directory.
C25_Witness ==
    /\ sres.status = 200
    /\ sreq = <<".", "/", "/", "a">>
    /\ sres.served = <<<<"songs">>, <<"a">>>>

\* ------------------------------------------------ sync client properties
\* onmessage has run: the step took a message in.
Receives == cin'.n # cin.n

\* The age test of the message taken in, on the message and the clock
\* reading themselves.
OlderThanWindow(i) == i.t2 - 2 * i.timestamp > 2 * FreshWindow

\* The distance of two positions.
Dist(a, b) == IF a >= b THEN a - b ELSE b - a

C27_OnlyRecentSynced ==
    [][(/\ Receives
        /\ cin'.type \in {"play", "pause"}
        /\ cin'.user_id # Self)
       => IF cin'.t2 - 2 * cin'.timestamp > 10
          THEN UNCHANGED <<cws, cconn, ctimer, cpres, cplaying, csong,
                           cpos, csent, clog, cnote>>
          ELSE clog' = [n |-> 1 - clog.n, last |-> cin'.type]]_vars

\* A pause message exactly 5 seconds old has been acted on: it is the
\* first entry of the log.
C27_Witness ==
    /\ cin.type = "pause"
    /\ cin.user_id = Friend
    /\ cin.t2 - 2 * cin.timestamp = 10
    /\ clog = [n |-> 1, last |-> "pause"]

\* C28: the client ignores its own messages.  For a message whose user_id
\* is the client's own, of any type, no handler runs: nothing is logged,
\* no notification is made, and playback and everything else stay as they
\* were.
C28_OwnMessagesIgnored ==
    [][(Receives /\ cin'.user_id = Self)
       => UNCHANGED <<cws, cconn, ctimer, cpres, cplaying, csong, cpos,
                      csent, clog, cnote>>]_vars

\* The client has taken in a recent pause message of its own while
\* playing, and has never logged a thing.
C28_Witness ==
    /\ cin.type = "pause"
    /\ cin.user_id = Self
    /\ ~OlderThanWindow(cin)
    /\ cplaying
    /\ clog.n = 0
    /\ clog.last = "none"

\* C29: whenever the client's socket closes, the client marks itself
\* disconnected and makes a new connection attempt 5 seconds later, after
\* every close; a client whose attempts can succeed is connected again in
\* the end; and while it is disconnected no send operation transmits.
C29_ReconnectsAfterClose ==
    /\ [](cconn => cws = "open")
    /\ [][(cws # "closed" /\ cws' = "closed")
          => ~cconn' /\ ctimer' = ReconnectDelay]_vars
    /\ [][ctimer' # ctimer
          => \/ ctimer' = ReconnectDelay /\ cws' = "closed"
             \/ ctimer > 0 /\ ctimer' = ctimer - 1
             \/ ctimer = 0 /\ ctimer' = -1 /\ cws' = "connecting"]_vars
    /\ [][(cws = "closed" /\ cws' # "closed")
          => ctimer = 0 /\ cws' = "connecting"]_vars
    /\ [][(~cconn /\ ~cconn') => csent' = csent]_vars
    /\ (cws = "closed") ~> (cws = "connecting")
    /\ (cws = "closed") ~> cconn

\* The client is connected for the second time at least, having played
\* a song while it was not connected: the last thing it sent is the
\* presence of the open.
C29_Witness ==
    /\ cconn
    /\ cpres = MaxPres
    /\ cplaying
    /\ csent.last = "presence"

\* C30: every message a connection's read path submitted to the hub before
\* the connection failed is fanned out before the hub processes that
\* connection's Unregister.  A read path signals Unregister holding no
\* message; the message it held left it by no other way than the hub
\* taking it, which starts the loop over all registered connections with
\* that message; the loop loses an entry only by visiting it, and the hub
\* is back at its select only with the loop done; and the hub takes the
\* Unregister at its select, with no message of anybody in the loop.
C30_SubmittedBeforeUnregister ==
    /\ [](\A c \in Conn : rpc[c] \in {"unreg", "done"} => rmsg[c] = NoMsg)
    /\ [](hpc = "select" => hmsg = NoMsg /\ htodo = {})
    /\ [][\A c \in Conn :
            (rmsg[c] # NoMsg /\ rmsg'[c] # rmsg[c])
            => /\ Accepts(c)
               /\ rmsg'[c] = NoMsg
               /\ htodo' = Clients
               /\ Clients # {} => hmsg' = rmsg[c] /\ hpc' = "fanout"]_vars
    /\ [][(hpc = "fanout" /\ htodo' # htodo)
          => \E d \in htodo :
                /\ htodo' = htodo \ {d}
                /\ \/ Send'[d] = Append(Send[d], hmsg)
                   \/ d \notin Clients' /\ evictedBy'[d] = hmsg.id]_vars
    /\ [][\A c \in Conn :
            unregs'[c] # unregs[c]
            => /\ rmsg[c] = NoMsg
               /\ hpc = "select"
               /\ hmsg = NoMsg]_vars

\* A's connection has failed and the hub has processed its Unregister, all
\* frames of the run having been read by A; the last of its messages is in
\* what a peer was sent or is about to be sent.
C30_Witness ==
    /\ unregs["A"] = 1
    /\ rpc["A"] = "done"
    /\ nextId = MaxMsgs + 1
    /\ \E d \in Conn \ {"A"} :
          \E m \in Items(Stream(d)) : m.origin = "A" /\ m.id = MaxMsgs

\* C31: the hub fabricates, alters and duplicates nothing.  The message of
\* the range loop is the one a read path or a server call was blocked on
\* hub.Broadcast with, and stays the same for the whole loop; a queue grows
\* only by that message, once, and shrinks only at its head; a transport
\* is written only the head of the queue as it is, or the close frame of
\* writePump; and no message is twice in what a connection was written and
\* has queued.
C31_NothingFabricated ==
    /\ [][hmsg' # hmsg
          => \/ hmsg' = NoMsg
             \/ /\ hpc = "select"
                /\ \/ \E c \in Conn : Accepts(c) /\ hmsg' = rmsg[c]
                   \/ apc = "bcast" /\ apc' = "idle" /\ hmsg' = amsg]_vars
    /\ [][\A d \in Conn :
            Send'[d] # Send[d]
            => \/ /\ hpc = "fanout"
                  /\ hmsg # NoMsg
                  /\ Send'[d] = Append(Send[d], hmsg)
               \/ Send'[d] = Tail(Send[d])]_vars
    /\ [][\A d \in Conn :
            written'[d] # written[d]
            => \/ /\ Send[d] # <<>>
                  /\ written'[d] = Append(written[d], Head(Send[d]))
                  /\ Send'[d] = Tail(Send[d])
               \/ written'[d] = Append(written[d], CloseFrame)]_vars
    /\ [](\A d \in Conn :
            \A i, j \in 1..Len(Stream(d)) :
                Stream(d)[i].id = Stream(d)[j].id => i = j)
    /\ [](\A d \in Conn : \A m \in Items(Stream(d)) :
            /\ m.id \in 1..(nextId - 1)
            /\ m.origin \in {"A", "B", "server"}
            /\ m.ts # 0)

\* B was written a message of the server and has one of a peer queued,
\* and A has the same two.
C31_Witness ==
    /\ Len(written["B"]) = 1
    /\ written["B"][1].origin = "server"
    /\ Len(Send["B"]) = 1
    /\ Send["B"][1].origin = "A"
    /\ Stream("A") = Stream("B")

\* C32: a sync client has at most one pending presence timeout at any
\* time, over any sequence of connects, disconnects and reconnects.
C32_OnePresenceTimer == cpres <= 1

\* C33: a message of SendPlaySync or SendPauseSync carries the time of the
\* call as its timestamp; the call returns in no other step than the one
\* in which Hub.Run, at its select, takes the message and starts the range
\* loop with it, so it stays blocked as long as the hub takes no step; and
\* the loop enqueues the message on every registered connection it finds
\* with a free slot.
C33_ServerSync ==
    /\ [][(apc = "idle" /\ apc' = "bcast")
          => amsg' = [id |-> nextId, origin |-> "server", ts |-> now,
                      kind |-> "play"]]_vars
    /\ [](apc = "bcast" => amsg.origin = "server" /\ amsg.ts # 0)
    /\ [][(apc = "bcast" /\ apc' # "bcast")
          => /\ hpc = "select"
             /\ apc' = "idle"
             /\ htodo' = Clients
             /\ Clients # {} => hmsg' = amsg /\ hpc' = "fanout"]_vars
    /\ [][(apc = "bcast" /\ hpc # "select") => UNCHANGED <<apc, amsg>>]_vars
    /\ [][\A d \in Conn :
            (Visits(d) /\ hmsg.origin = "server" /\ Len(Send[d]) < SendCap)
            => /\ Send'[d] = Append(Send[d], hmsg)
               /\ d \in Clients']_vars
    /\ [][(hpc = "fanout" /\ hmsg.origin = "server")
          => \/ hmsg' = hmsg /\ htodo' \subseteq htodo
             \/ hmsg' = NoMsg /\ htodo' = {} /\ hpc' = "select"]_vars

\* A call made after the clock had advanced has returned, and both
\* connections have its message, stamped with the time of the call: A has
\* been written it and B has it queued.
C33_Witness ==
    /\ apc = "idle"
    /\ hpc = "select"
    /\ now = StartTime + 1
    /\ \E m \in Items(written["A"]) :
          /\ m.origin = "server"
          /\ m.ts = StartTime + 1
          /\ m \in Items(Send["B"])

====
